---- MODULE Spec2Model ----
(***************************************************************************)
(* A model of the Mandelbrot renderer of src/main.rs: the numeric-pair     *)
(* parser, the pixel-to-point mapping, the escape-time loop, the colour    *)
(* banding, the render loop and the PNG writer, and main's control flow.   *)
(*                                                                         *)
(* Representation.                                                         *)
(*   - A &str is a sequence of characters: "1,2" is <<"1", ",", "2">>.     *)
(*     Offsets into a &str count UTF-8 bytes, as in Rust; TwoByteChar      *)
(*     stands for a character of two bytes (U+00E9), every other character *)
(*     of the model has one.                                               *)
(*   - An f64 is an IEEE 754 binary64 number: NaN, Inf(s) or Fin(s, m, e), *)
(*     the number (-1)^s * m * 2^e, where the 53-bit m is written as four  *)
(*     limbs of 14 bits, lowest first: 1.5 is                              *)
(*     Fin(0, <<0, 0, 0, 3072>>, -52), since 3072 * 2^42 * 2^-52 = 1.5.    *)
(*     The operations round to nearest, ties to even, as the hardware      *)
(*     does, so that every result is the f64 the program computes.  An     *)
(*     f32 is written the same way, with m of 24 bits.                     *)
(*   - A usize or i32 is an integer; a usize above 2^31 - 1, which the     *)
(*     32-bit integers of the model cannot hold, is Wide(ds) for its       *)
(*     decimal digits ds.                                                  *)
(*   - Option<T> is <<"None">> or <<"Some", v>>; a call that panics        *)
(*     instead of returning is <<"Panic">>.                                *)
(*   - Complex<f64> is [re |-> _, im |-> _]; Color is [r |-> _, g |-> _,   *)
(*     b |-> _] with u8 fields.                                            *)
(***************************************************************************)
EXTENDS Integers, Sequences, FiniteSets

VARIABLES
    pc,          \* main's position
    args,        \* std::env::args(), a sequence of strings
    bounds,      \* Option<(usize, usize)> parsed from args[2]
    upper_left,  \* Option<Complex<f64>> parsed from args[3]
    lower_right, \* Option<Complex<f64>> parsed from args[4]
    pixels,      \* the Vec<Color> of main, 1-indexed here
    writes,      \* history: how often render stored into each index
    xy,          \* render's loop position <<x, y>>
    lastValue,   \* history: the last argument handed to color_from_value
    file,        \* the destination file: "absent", "empty" or "image"
    createCalls, \* history: how often File::create was called
    ioFailed,    \* history: whether File::create or write_image failed
    exitCode,    \* the process exit status once pc = "exited"
    call,        \* harness: the pure function applied and its input
    ret          \* harness: its result

vars == <<pc, args, bounds, upper_left, lower_right, pixels, writes, xy,
          lastValue, file, createCalls, ioFailed, exitCode, call, ret>>

progVars == <<pc, args, bounds, upper_left, lower_right, pixels, writes, xy,
              lastValue, file, createCalls, ioFailed, exitCode>>

----------------------------------------------------------------------------
(* Values *)

None == <<"None">>

Some(v) == <<"Some", v>>

\* The outcome of a call that panics.
Panicked == <<"Panic">>

IsSome(o) == o[1] = "Some"

Unwrap(o) == o[2]

Complex(re, im) == [re |-> re, im |-> im]

Color(r, g, b) == [r |-> r, g |-> g, b |-> b]

\* value as u8
AsU8(value) == value % 256

\* u8 subtraction a - b in a release build (wrapping).
U8Sub(a, b) == (a - b) % 256

----------------------------------------------------------------------------
(* Natural numbers beyond 32-bit integers: little-endian sequences         *)
(* of limbs in 0..Base-1.                                                  *)

\* The single element of a singleton set.  { e(x) : x \in {v} } evaluates v
\* once and e(x) on its value, where a LET would evaluate v at every use.
Only(S) == CHOOSE x \in S : TRUE

LimbBits == 14

Base == 2^LimbBits

Pow2(n) == 2^n

\* Limb j of a, zero outside the sequence.
BigLimb(a, j) == IF j >= 1 /\ j <= Len(a) THEN a[j] ELSE 0

RECURSIVE BigTopFrom(_, _)
BigTopFrom(a, j) ==
    IF j = 0 THEN 0 ELSE IF a[j] # 0 THEN j ELSE BigTopFrom(a, j - 1)

\* The index of the highest limb that is not zero (0 for the number 0).
BigTop(a) == BigTopFrom(a, Len(a))

\* a without its leading zero limbs.
BigTrim(a) == SubSeq(a, 1, BigTop(a))

\* The number of bits of the limb x.
LimbLen(x) ==
    IF x < 128
    THEN IF x < 8
         THEN IF x < 2 THEN x ELSE IF x < 4 THEN 2 ELSE 3
         ELSE IF x < 32 THEN (IF x < 16 THEN 4 ELSE 5)
              ELSE (IF x < 64 THEN 6 ELSE 7)
    ELSE IF x < 2048
         THEN IF x < 512 THEN (IF x < 256 THEN 8 ELSE 9)
              ELSE (IF x < 1024 THEN 10 ELSE 11)
         ELSE IF x < 8192 THEN (IF x < 4096 THEN 12 ELSE 13)
              ELSE 14

\* The number of bits of a (0 for the number 0).
BigBitLen(a) ==
    Only({IF t = 0 THEN 0 ELSE LimbBits * (t - 1) + LimbLen(a[t]) :
            t \in {BigTop(a)}})

\* The n low limbs of a \div 2^sh, as a tuple.
BigShr(a, sh, n) ==
    LET ls == sh \div LimbBits
        bs == sh % LimbBits
    IN  SubSeq([j \in 1..n |->
                  (BigLimb(a, j + ls) \div Pow2(bs))
                      + (BigLimb(a, j + ls + 1) % Pow2(bs))
                            * Pow2(LimbBits - bs)], 1, n)

\* The n low limbs of a * 2^sh, as a tuple.
BigShl(a, sh, n) ==
    LET ls == sh \div LimbBits
        bs == sh % LimbBits
    IN  SubSeq([j \in 1..n |->
                  (BigLimb(a, j - ls) % Pow2(LimbBits - bs)) * Pow2(bs)
                      + (BigLimb(a, j - ls - 1) \div Pow2(LimbBits - bs))],
               1, n)

\* Bit i of a (bit 0 is the lowest).
BigBit(a, i) == (BigLimb(a, i \div LimbBits + 1) \div Pow2(i % LimbBits)) % 2

\* The sh low bits of a are all zero.
BigLowZero(a, sh) ==
    LET ls == sh \div LimbBits
        bs == sh % LimbBits
    IN  /\ \A j \in 1..Len(a) : j <= ls => a[j] = 0
        /\ BigLimb(a, ls + 1) % Pow2(bs) = 0

RECURSIVE BigAddFrom(_, _, _, _, _)
BigAddFrom(a, b, j, n, carry) ==
    IF j > n THEN <<>>
    ELSE Only({<<t % Base>> \o BigAddFrom(a, b, j + 1, n, t \div Base) :
                 t \in {BigLimb(a, j) + BigLimb(b, j) + carry}})

\* The n low limbs of a + b, for short numbers.
BigAdd(a, b, n) == BigAddFrom(a, b, 1, n, 0)

RECURSIVE BigSubFrom(_, _, _, _, _)
BigSubFrom(a, b, j, n, borrow) ==
    IF j > n THEN <<>>
    ELSE Only({<<t % Base>> \o
                 BigSubFrom(a, b, j + 1, n, IF t < 0 THEN 1 ELSE 0) :
                 t \in {BigLimb(a, j) - BigLimb(b, j) - borrow}})

\* The n low limbs of a - b for a >= b, for short numbers.
BigSub(a, b, n) == BigSubFrom(a, b, 1, n, 0)

RECURSIVE BigLessFrom(_, _, _)
BigLessFrom(a, b, j) ==
    IF j = 0 THEN FALSE
    ELSE IF BigLimb(a, j) # BigLimb(b, j) THEN BigLimb(a, j) < BigLimb(b, j)
    ELSE BigLessFrom(a, b, j - 1)

\* a < b, for short numbers.
BigLess(a, b) == BigLessFrom(a, b, IF Len(a) > Len(b) THEN Len(a) ELSE Len(b))

\* The eight limbs of a * b, for a and b of four limbs.
BigMul4(a, b) ==
    LET c1 == a[1] * b[1]
        c2 == a[1] * b[2] + a[2] * b[1] + c1 \div Base
        c3 == a[1] * b[3] + a[2] * b[2] + a[3] * b[1] + c2 \div Base
        c4 == a[1] * b[4] + a[2] * b[3] + a[3] * b[2] + a[4] * b[1]
                + c3 \div Base
        c5 == a[2] * b[4] + a[3] * b[3] + a[4] * b[2] + c4 \div Base
        c6 == a[3] * b[4] + a[4] * b[3] + c5 \div Base
        c7 == a[4] * b[4] + c6 \div Base
    IN  <<c1 % Base, c2 % Base, c3 % Base, c4 % Base, c5 % Base, c6 % Base,
          c7 % Base, c7 \div Base>>

RECURSIVE MulAddRange(_, _, _, _, _)
\* Limbs lo..hi of a * m + c and the carry out of limb hi, for m, c < Base.
\* (The range is split in halves to keep the depth of evaluation small.)
MulAddRange(a, lo, hi, m, c) ==
    IF lo = hi
    THEN Only({[d |-> <<t % Base>>, c |-> t \div Base] : t \in {a[lo] * m + c}})
    ELSE Only({Only({[d |-> low.d \o high.d, c |-> high.c] :
                       high \in {MulAddRange(a, (lo + hi) \div 2 + 1, hi, m,
                                             low.c)}}) :
                 low \in {MulAddRange(a, lo, (lo + hi) \div 2, m, c)}})

\* a * m + c for m, c < Base, without leading zero limbs.
BigMulAdd(a, m, c) ==
    Only({IF Len(v) = 0 THEN (IF c = 0 THEN <<>> ELSE <<c>>)
          ELSE Only({IF r.c = 0 THEN r.d ELSE Append(r.d, r.c) :
                       r \in {MulAddRange(v, 1, Len(v), m, c)}}) :
          v \in {a}})

RECURSIVE DivRange(_, _, _, _, _)
\* Limbs lo..hi of the quotient of a by d < Base, from limb hi down, with the
\* remainder r carried in from above; and the remainder carried out.
DivRange(a, lo, hi, d, r) ==
    IF lo = hi
    THEN Only({[q |-> <<t \div d>>, r |-> t % d] : t \in {r * Base + a[lo]}})
    ELSE Only({Only({[q |-> low.q \o high.q, r |-> low.r] :
                       low \in {DivRange(a, lo, (lo + hi) \div 2, d, high.r)}}) :
                 high \in {DivRange(a, (lo + hi) \div 2 + 1, hi, d, r)}})

\* The quotient (without leading zero limbs) and remainder of a by d < Base.
BigDivSmall(a, d) ==
    Only({IF Len(v) = 0 THEN [q |-> <<>>, r |-> 0]
          ELSE Only({[q |-> BigTrim(t.q), r |-> t.r] :
                       t \in {DivRange(v, 1, Len(v), d, 0)}}) :
          v \in {a}})

----------------------------------------------------------------------------
(* IEEE 754 binary floating point.  A float is NaN, Inf(s) or               *)
(* Fin(s, m, e), the number (-1)^s * m * 2^e with m a natural number of     *)
(* four limbs; m has exactly p bits (a normal number) or e is emin (a       *)
(* subnormal number or zero).                                               *)

\* binary64: p = 53, the exponent of the lowest bit runs over -1074..971.
\* A decimal number of more than dmax digits before the point is infinite,
\* one with dmin or more zeros after the point rounds to zero.
F64Format == [p |-> 53, emin |-> -1074, emax |-> 971, dmax |-> 309,
              dmin |-> -324]

\* binary32.
F32Format == [p |-> 24, emin |-> -149, emax |-> 104, dmax |-> 39,
              dmin |-> -46]

Zero4 == <<0, 0, 0, 0>>

Fin(s, m, e) == [k |-> "fin", s |-> s, m |-> m, e |-> e]

Inf(s) == [k |-> "inf", s |-> s, m |-> Zero4, e |-> 0]

NaN == [k |-> "nan", s |-> 0, m |-> Zero4, e |-> 0]

FZeroOf(fmt, s) == Fin(s, Zero4, fmt.emin)

\* The f64 zero of sign s.
FZero(s) == FZeroOf(F64Format, s)

IsZero(a) == a.k = "fin" /\ a.m = Zero4

IsFinite(a) == a.k = "fin"

\* q + 1 for a number q of four limbs.
BigIncr(q) ==
    IF q[1] < Base - 1 THEN [q EXCEPT ![1] = @ + 1] ELSE BigAdd(q, <<1>>, 4)

\* The float of the format nearest to (-1)^s * r * 2^e, ties to even, with
\* r = M when ~sticky and M < r < M + 1 when sticky (M then has more than
\* p + 1 bits); infinite once the exponent exceeds emax.
RoundTo(fmt, s, M, e, sticky) ==
    Only({
        IF len = 0 THEN FZeroOf(fmt, s)
        ELSE LET want == len - fmt.p
                 low  == fmt.emin - e
                 sh   == IF want > low THEN want ELSE low
             IN  IF sh <= 0
                 THEN IF e + sh > fmt.emax THEN Inf(s)
                      ELSE Fin(s, BigShl(M, 0 - sh, 4), e + sh)
                 ELSE Only({
                        LET rest == sticky \/ ~BigLowZero(M, sh - 1)
                            up   == /\ BigBit(M, sh - 1) = 1
                                    /\ (rest \/ q[1] % 2 = 1)
                        IN  Only({
                              IF BigBit(r, fmt.p) = 1
                              THEN IF e + sh + 1 > fmt.emax THEN Inf(s)
                                   ELSE Fin(s, BigShr(r, 1, 4), e + sh + 1)
                              ELSE IF e + sh > fmt.emax THEN Inf(s)
                                   ELSE Fin(s, r, e + sh) :
                              r \in {IF up THEN BigIncr(q) ELSE q}}) :
                        q \in {BigShr(M, sh, 4)}}) :
        len \in {BigBitLen(M)}})

RoundPack(s, M, e, sticky) ==
    Only({RoundTo(F64Format, s, m, e, sticky) : m \in {M}})

\* a * b
F64Mul(x, y) ==
    Only({
        IF a.k = "nan" \/ b.k = "nan" THEN NaN
        ELSE IF a.k = "inf" \/ b.k = "inf"
        THEN IF IsZero(a) \/ IsZero(b) THEN NaN ELSE Inf((a.s + b.s) % 2)
        ELSE IF a.m = Zero4 \/ b.m = Zero4 THEN FZero((a.s + b.s) % 2)
        ELSE RoundPack((a.s + b.s) % 2, BigMul4(a.m, b.m), a.e + b.e, FALSE) :
        a \in {x}, b \in {y}})

\* -a
F64Neg(x) ==
    Only({IF a.k = "nan" THEN a ELSE [a EXCEPT !.s = 1 - a.s] : a \in {x}})

\* hi + lo for finite numbers that are not zero, hi.e >= lo.e.
FinAddOrdered(hi, lo) ==
    IF hi.e - lo.e > 56 THEN hi
    ELSE Only({
           IF hi.s = lo.s THEN RoundPack(hi.s, BigAdd(H, lo.m, 8), lo.e, FALSE)
           ELSE IF H = BigShl(lo.m, 0, 8) THEN FZero(0)
           ELSE IF BigLess(H, lo.m)
           THEN RoundPack(lo.s, BigSub(lo.m, H, 8), lo.e, FALSE)
           ELSE RoundPack(hi.s, BigSub(H, lo.m, 8), lo.e, FALSE) :
           H \in {BigShl(hi.m, hi.e - lo.e, 8)}})

\* a + b
F64Add(x, y) ==
    Only({
        IF a.k = "nan" \/ b.k = "nan" THEN NaN
        ELSE IF a.k = "inf" /\ b.k = "inf" THEN (IF a.s = b.s THEN a ELSE NaN)
        ELSE IF a.k = "inf" THEN a
        ELSE IF b.k = "inf" THEN b
        ELSE IF a.m = Zero4 /\ b.m = Zero4
        THEN FZero(IF a.s = 1 /\ b.s = 1 THEN 1 ELSE 0)
        ELSE IF a.m = Zero4 THEN b
        ELSE IF b.m = Zero4 THEN a
        ELSE IF a.e >= b.e THEN FinAddOrdered(a, b) ELSE FinAddOrdered(b, a) :
        a \in {x}, b \in {y}})

\* a - b
F64Sub(x, y) == F64Add(x, F64Neg(y))

RECURSIVE DivBits(_, _, _)
\* n more bits of the quotient by B, from the remainder r < B: the bits and
\* the remainder left.
DivBits(r, B, n) ==
    IF n = 0 THEN [q |-> 0, r |-> r]
    ELSE Only({
           Only({IF BigLess(r2, B) THEN [q |-> 2 * prev.q, r |-> r2]
                 ELSE [q |-> 2 * prev.q + 1, r |-> BigSub(r2, B, 4)] :
                 r2 \in {BigShl(prev.r, 1, 4)}}) :
           prev \in {DivBits(r, B, n - 1)}})

\* |a| / |b| for finite a and b that are not zero, with sign s: both
\* mantissas are brought to 53 bits, A and B, and 56 bits of A / B are
\* rounded.
FinDiv(s, a, b) ==
    Only({
        LET q0 == IF BigLess(A, B) THEN 0 ELSE 1
            r0 == IF q0 = 1 THEN BigSub(A, B, 4) ELSE A
        IN  Only({
              Only({
                Only({
                  Only({
                    RoundPack(s, <<d1.q, d2.q, d3.q, d4.q + q0 * Pow2(13)>>,
                              (a.e - (53 - la)) - (b.e - (53 - lb)) - 55,
                              d1.r # Zero4) :
                    d1 \in {DivBits(d2.r, B, 14)}}) :
                  d2 \in {DivBits(d3.r, B, 14)}}) :
                d3 \in {DivBits(d4.r, B, 14)}}) :
              d4 \in {DivBits(r0, B, 13)}}) :
        la \in {BigBitLen(a.m)}, lb \in {BigBitLen(b.m)},
        A \in {BigShl(a.m, 53 - BigBitLen(a.m), 4)},
        B \in {BigShl(b.m, 53 - BigBitLen(b.m), 4)}})

\* a / b
F64Div(x, y) ==
    Only({
        IF a.k = "nan" \/ b.k = "nan" THEN NaN
        ELSE IF a.k = "inf"
        THEN IF b.k = "inf" THEN NaN ELSE Inf((a.s + b.s) % 2)
        ELSE IF b.k = "inf" THEN FZero((a.s + b.s) % 2)
        ELSE IF b.m = Zero4
        THEN IF a.m = Zero4 THEN NaN ELSE Inf((a.s + b.s) % 2)
        ELSE IF a.m = Zero4 THEN FZero((a.s + b.s) % 2)
        ELSE FinDiv((a.s + b.s) % 2, a, b) :
        a \in {x}, b \in {y}})

\* |a| < |b| for finite a and b.
MagLess(a, b) ==
    IF a.m = Zero4 THEN b.m # Zero4
    ELSE IF b.m = Zero4 THEN FALSE
    ELSE a.e < b.e \/ (a.e = b.e /\ BigLess(a.m, b.m))

\* a < b
F64Lt(x, y) ==
    Only({
        IF a.k = "nan" \/ b.k = "nan" THEN FALSE
        ELSE IF a.k = "inf" THEN a.s = 1 /\ ~(b.k = "inf" /\ b.s = 1)
        ELSE IF b.k = "inf" THEN b.s = 0
        ELSE IF a.m = Zero4 /\ b.m = Zero4 THEN FALSE
        ELSE IF a.s # b.s THEN a.s = 1
        ELSE IF a.s = 0 THEN MagLess(a, b) ELSE MagLess(b, a) :
        a \in {x}, b \in {y}})

\* a > b
F64Gt(x, y) == F64Lt(y, x)

\* a == b: NaN equals nothing, the two zeros are equal.
F64Eq(x, y) ==
    Only({
        IF a.k = "nan" \/ b.k = "nan" THEN FALSE
        ELSE IF IsZero(a) /\ IsZero(b) THEN TRUE
        ELSE a = b :
        a \in {x}, b \in {y}})

\* The three limbs of the natural number n < 2^31.
IntLimbs(n) == <<n % Base, (n \div Base) % Base, n \div (Base * Base)>>

\* n as f64, for a usize n < 2^31.
UsizeAsF64(n) == RoundPack(0, IntLimbs(n), 0, FALSE)

\* The f64 n * 2^e for an integer n, -2^31 < n < 2^31: a literal such as 2.0
\* or -0.5.
F64Of(n, e) ==
    RoundPack(IF n < 0 THEN 1 ELSE 0, IntLimbs(IF n < 0 THEN 0 - n ELSE n), e,
              FALSE)

----------------------------------------------------------------------------
(* Strings *)

\* A character whose UTF-8 encoding has two bytes.
TwoByteChar == "U+00E9"

\* char::len_utf8
Utf8Len(ch) == IF ch = TwoByteChar THEN 2 ELSE 1

\* str::len: the length in bytes.
ByteLen(s) == Len(s) + Cardinality({i \in 1..Len(s) : Utf8Len(s[i]) = 2})

\* str::is_char_boundary: offset k is the start of a character or the end.
IsCharBoundary(s, k) == \E n \in 0..Len(s) : ByteLen(SubSeq(s, 1, n)) = k

\* The number of characters before the character boundary k.
CharsBefore(s, k) == CHOOSE n \in 0..Len(s) : ByteLen(SubSeq(s, 1, n)) = k

\* &s[from..], from a character boundary (anything else panics).
SliceFrom(s, from) == SubSeq(s, CharsBefore(s, from) + 1, Len(s))

\* &s[..to], to a character boundary (anything else panics).
SliceTo(s, to) == SubSeq(s, 1, CharsBefore(s, to))

\* The least element of a set of integers that is not empty.
Least(S) == CHOOSE i \in S : \A j \in S : i <= j

\* str::find(char): the byte offset of the first occurrence.
Find(s, ch) ==
    Only({IF at = {} THEN None
          ELSE Some(ByteLen(SubSeq(s, 1, Least(at) - 1))) :
          at \in {{i \in 1..Len(s) : s[i] = ch}}})

----------------------------------------------------------------------------
(* FromStr for the numeric types *)

Digits == {"0", "1", "2", "3", "4", "5", "6", "7", "8", "9"}

DigitVal(ch) ==
    CASE ch = "0" -> 0 [] ch = "1" -> 1 [] ch = "2" -> 2 [] ch = "3" -> 3
      [] ch = "4" -> 4 [] ch = "5" -> 5 [] ch = "6" -> 6 [] ch = "7" -> 7
      [] ch = "8" -> 8 [] ch = "9" -> 9

\* The index of the first character of s from index i on that is not a
\* digit, Len(s) + 1 when there is none.
DigitsEnd(s, i) ==
    Only({IF stops = {} THEN Len(s) + 1 ELSE Least(stops) :
            stops \in {{j \in i..Len(s) : s[j] \notin Digits}}})

\* ds without its leading zeros.
StripZeros(ds) ==
    Only({IF nz = {} THEN <<>> ELSE SubSeq(ds, Least(nz), Len(ds)) :
            nz \in {{j \in 1..Len(ds) : ds[j] # "0"}}})

\* a <= b for numbers given by their digits, without leading zeros.
DigitsLeq(a, b) ==
    IF Len(a) # Len(b) THEN Len(a) < Len(b)
    ELSE Only({a = b \/ (diff # {} /\ DigitVal(a[Least(diff)]) < DigitVal(b[Least(diff)])) :
                 diff \in {{j \in 1..Len(a) : a[j] # b[j]}}})

RECURSIVE DecVal(_)
\* The number a short sequence of decimal digits denotes.
DecVal(ds) ==
    IF ds = <<>> THEN 0
    ELSE 10 * DecVal(SubSeq(ds, 1, Len(ds) - 1)) + DigitVal(ds[Len(ds)])

RECURSIVE DecBigRange(_, _, _, _)
\* acc followed by the digits lo..hi of ds, as a natural number.
DecBigRange(ds, lo, hi, acc) ==
    IF lo > hi THEN acc
    ELSE IF lo = hi THEN BigMulAdd(acc, 10, DigitVal(ds[lo]))
    ELSE Only({DecBigRange(ds, (lo + hi) \div 2 + 1, hi, mid) :
                 mid \in {DecBigRange(ds, lo, (lo + hi) \div 2, acc)}})

\* The natural number a sequence of decimal digits denotes.
DecBig(ds) == DecBigRange(ds, 1, Len(ds), <<>>)

RECURSIVE MulPow5(_, _)
\* a * 5^n
MulPow5(a, n) ==
    IF n <= 6 THEN BigMulAdd(a, 5^n, 0)
    ELSE Only({MulPow5(half, n - n \div 2) : half \in {MulPow5(a, n \div 2)}})

RECURSIVE DivPow5(_, _)
\* st.q \div 5^n, and whether a remainder was dropped now or before.
DivPow5(st, n) ==
    IF n <= 6
    THEN Only({[q |-> d.q, sticky |-> st.sticky \/ d.r # 0] :
                 d \in {BigDivSmall(st.q, 5^n)}})
    ELSE Only({DivPow5(half, n - n \div 2) : half \in {DivPow5(st, n \div 2)}})

\* An upper bound of the number of bits of 5^n.
Pow5Bits(n) == (n * 2322) \div 1000 + 1

\* The float of the format nearest to (-1)^s * ds * 10^e10 for the digits ds.
DecToFloat(fmt, s, ds, e10) ==
    Only({
        IF sig = <<>> THEN FZeroOf(fmt, s)
        ELSE IF Len(sig) + e10 > fmt.dmax THEN Inf(s)
        ELSE IF Len(sig) + e10 <= fmt.dmin THEN FZeroOf(fmt, s)
        ELSE IF e10 >= 0
        THEN Only({RoundTo(fmt, s, M, e10, FALSE) :
                     M \in {MulPow5(DecBig(sig), e10)}})
        ELSE Only({
               Only({
                 Only({RoundTo(fmt, s, d.q, e10 - k, d.sticky) :
                         d \in {DivPow5([q |-> BigShl(D, k, (BigBitLen(D) + k)
                                                          \div LimbBits + 1),
                                         sticky |-> FALSE], 0 - e10)}}) :
                 k \in {IF Pow5Bits(0 - e10) + fmt.p + 3 > BigBitLen(D)
                        THEN Pow5Bits(0 - e10) + fmt.p + 3 - BigBitLen(D)
                        ELSE 0}}) :
               D \in {DecBig(sig)}}) :
        sig \in {StripZeros(ds)}})

RECURSIVE ExpRange(_, _, _, _)
\* The exponent's digits lo..hi of s accumulated onto acc; the value stops
\* growing once it has reached 65536.
ExpRange(s, lo, hi, acc) ==
    IF lo > hi THEN acc
    ELSE IF lo = hi
    THEN Only({IF v < 65536 THEN 10 * v + DigitVal(s[lo]) ELSE v : v \in {acc}})
    ELSE Only({ExpRange(s, (lo + hi) \div 2 + 1, hi, mid) :
                 mid \in {ExpRange(s, lo, (lo + hi) \div 2, acc)}})

\* The decimal number b spells, as its digits and its power of ten, or None:
\* digits with an optional "." among them, at least one digit, then an
\* optional exponent: "e" or "E", an optional sign and at least one digit.
DecimalOf(b) ==
    LET i1     == DigitsEnd(b, 1)
        dot    == i1 <= Len(b) /\ b[i1] = "."
        f0     == IF dot THEN i1 + 1 ELSE i1
        f1     == IF dot THEN DigitsEnd(b, f0) ELSE i1
        hasExp == f1 <= Len(b) /\ b[f1] \in {"e", "E"}
        signed == hasExp /\ f1 + 1 <= Len(b) /\ b[f1 + 1] \in {"+", "-"}
        x0     == IF signed THEN f1 + 2 ELSE f1 + 1
        x1     == DigitsEnd(b, x0)
        mag    == ExpRange(b, x0, x1 - 1, 0)
        exp    == IF ~hasExp THEN 0
                  ELSE IF signed /\ b[f1 + 1] = "-" THEN 0 - mag ELSE mag
    IN  IF (i1 - 1) + (f1 - f0) = 0 THEN None
        ELSE IF hasExp /\ x1 = x0 THEN None
        ELSE IF (IF hasExp THEN x1 ELSE f1) # Len(b) + 1 THEN None
        ELSE Some([digits |-> SubSeq(b, 1, i1 - 1) \o SubSeq(b, f0, f1 - 1),
                   exp |-> exp - (f1 - f0)])

\* The letter ch in lower case, for the letters of "infinity" and "nan".
LowerCase(ch) ==
    CASE ch = "I" -> "i" [] ch = "N" -> "n" [] ch = "F" -> "f"
      [] ch = "A" -> "a" [] ch = "T" -> "t" [] ch = "Y" -> "y"
      [] OTHER -> ch

\* "inf", "infinity" and "nan" in any case, with the sign s.
InfNanOf(b, s) ==
    LET lower == SubSeq([i \in 1..Len(b) |-> LowerCase(b[i])], 1,
                       Len(b))
    IN  IF lower = <<"n", "a", "n">> THEN Some(NaN)
        ELSE IF lower \in {<<"i", "n", "f">>,
                           <<"i", "n", "f", "i", "n", "i", "t", "y">>}
        THEN Some(Inf(s))
        ELSE None

\* <f32 or f64 as FromStr>::from_str: an optional sign, then a decimal
\* number, or else "inf", "infinity" or "nan".
FloatFromStr(fmt, s) ==
    IF s = <<>> THEN None
    ELSE LET sign == IF s[1] = "-" THEN 1 ELSE 0
             body == IF s[1] \in {"+", "-"} THEN Tail(s) ELSE s
         IN  IF body = <<>> THEN None
             ELSE Only({IF IsSome(num)
                        THEN Some(DecToFloat(fmt, sign, Unwrap(num).digits,
                                             Unwrap(num).exp))
                        ELSE InfNanOf(body, sign) :
                        num \in {DecimalOf(body)}})

F64FromStr(s) == FloatFromStr(F64Format, s)

F32FromStr(s) == FloatFromStr(F32Format, s)

\* The digits of usize::MAX, 2^64 - 1.
UsizeMaxDigits ==
    <<"1", "8", "4", "4", "6", "7", "4", "4", "0", "7", "3", "7", "0", "9",
      "5", "5", "1", "6", "1", "5">>

\* The digits of i32::MAX, 2^31 - 1, also the largest integer of the model.
I32MaxDigits == <<"2", "1", "4", "7", "4", "8", "3", "6", "4", "7">>

\* The digits of -i32::MIN, 2^31.
I32MinDigits == <<"2", "1", "4", "7", "4", "8", "3", "6", "4", "8">>

\* A usize above 2^31 - 1, by its decimal digits.
Wide(ds) == <<"Wide", ds>>

\* <usize as FromStr>::from_str: an optional "+", then one or more digits
\* of a number that is at most usize::MAX.
UsizeFromStr(s) ==
    LET body == IF s # <<>> /\ s[1] = "+" THEN Tail(s) ELSE s
    IN  IF body = <<>> \/ DigitsEnd(body, 1) # Len(body) + 1 THEN None
        ELSE Only({IF ~DigitsLeq(ds, UsizeMaxDigits) THEN None
                   ELSE IF DigitsLeq(ds, I32MaxDigits) THEN Some(DecVal(ds))
                   ELSE Some(Wide(ds)) :
                   ds \in {StripZeros(body)}})

\* <i32 as FromStr>::from_str: an optional sign, then one or more digits of
\* a number within i32::MIN..i32::MAX.
I32FromStr(s) ==
    LET neg  == s # <<>> /\ s[1] = "-"
        body == IF s # <<>> /\ s[1] \in {"+", "-"} THEN Tail(s) ELSE s
    IN  IF body = <<>> \/ DigitsEnd(body, 1) # Len(body) + 1 THEN None
        ELSE Only({IF ~neg
                   THEN IF DigitsLeq(ds, I32MaxDigits) THEN Some(DecVal(ds))
                        ELSE None
                   ELSE IF ds = I32MinDigits
                   THEN Some(0 - DecVal(I32MaxDigits) - 1)
                   ELSE IF DigitsLeq(ds, I32MaxDigits)
                   THEN Some(0 - DecVal(ds))
                   ELSE None :
                   ds \in {StripZeros(body)}})

\* T::from_str for the types parse_pair is used with: usize in main, f64 in
\* parse_complex, i32 and f32 in the tests.
FromStr(T, s) ==
    CASE T = "usize" -> UsizeFromStr(s)
      [] T = "i32" -> I32FromStr(s)
      [] T = "f32" -> F32FromStr(s)
      [] T = "f64" -> F64FromStr(s)

----------------------------------------------------------------------------
(* parse_pair and parse_complex *)

\* parse_pair::<T>(s, separator).  index is a character boundary, index + 1
\* is one only when the separator has one byte: the slice panics otherwise.
parse_pair(T, s, separator) ==
    LET found == Find(s, separator)
    IN  IF ~IsSome(found) THEN None
        ELSE LET index == Unwrap(found)
             IN  IF ~IsCharBoundary(s, index + 1) THEN Panicked
                 ELSE Only({IF IsSome(l) /\ IsSome(r)
                            THEN Some(<<Unwrap(l), Unwrap(r)>>)
                            ELSE None :
                            l \in {FromStr(T, SliceTo(s, index))},
                            r \in {FromStr(T, SliceFrom(s, index + 1))}})

parse_complex(s) ==
    Only({IF IsSome(p) THEN Some(Complex(Unwrap(p)[1], Unwrap(p)[2]))
          ELSE None :
          p \in {parse_pair("f64", s, ",")}})

----------------------------------------------------------------------------
(* The pipeline's pure functions *)

\* The mutant of pixel_to_point: the imaginary part divides by the width.
pixel_to_point_width_twice(bnds, pixel, ul, lr) ==
    LET width  == F64Sub(lr.re, ul.re)
        height == F64Sub(ul.im, lr.im)
    IN  Complex(F64Add(ul.re, F64Div(F64Mul(UsizeAsF64(pixel[1]), width),
                                     UsizeAsF64(bnds[1]))),
                F64Sub(ul.im, F64Div(F64Mul(UsizeAsF64(pixel[2]), height),
                                     UsizeAsF64(bnds[1]))))

pixel_to_point(bnds, pixel, ul, lr) ==
    LET width  == F64Sub(lr.re, ul.re)
        height == F64Sub(ul.im, lr.im)
    IN  Complex(F64Add(ul.re, F64Div(F64Mul(UsizeAsF64(pixel[1]), width),
                                     UsizeAsF64(bnds[1]))),
                F64Sub(ul.im, F64Div(F64Mul(UsizeAsF64(pixel[2]), height),
                                     UsizeAsF64(bnds[2]))))

\* Complex multiplication and addition of num::Complex.
ComplexMul(x, y) ==
    Only({Complex(F64Sub(F64Mul(a.re, b.re), F64Mul(a.im, b.im)),
                  F64Add(F64Mul(a.re, b.im), F64Mul(a.im, b.re))) :
            a \in {x}, b \in {y}})

ComplexAdd(x, y) ==
    Only({Complex(F64Add(a.re, b.re), F64Add(a.im, b.im)) :
            a \in {x}, b \in {y}})

norm_sqr(x) ==
    Only({F64Add(F64Mul(z.re, z.re), F64Mul(z.im, z.im)) : z \in {x}})

\* The escape threshold the loop compares norm_sqr with: 2.0.
EscapeThreshold == F64Of(2, 0)

\* The loop variables before the loop of mandelbrot: z = 0, i = 0, and
\* nothing returned yet.
LoopStart == [z |-> Complex(FZero(0), FZero(0)), i |-> 0, result |-> None]

\* One iteration of the loop body (lines 65-68): once a value has been
\* returned, nothing more happens.
EscapeStep(state, c, threshold) ==
    Only({IF IsSome(st.result) THEN st
          ELSE Only({IF F64Gt(norm_sqr(z1), threshold)
                     THEN [z |-> z1, i |-> st.i, result |-> Some(st.i)]
                     ELSE [z |-> z1, i |-> st.i + 1, result |-> None] :
                     z1 \in {ComplexAdd(ComplexMul(st.z, st.z), c)}}) :
          st \in {state}})

RECURSIVE EscapeRun(_, _, _, _)
\* n iterations of the loop from st, in order.  (The iterations are composed
\* by halves to keep the depth of evaluation logarithmic in n.)
EscapeRun(state, c, n, threshold) ==
    Only({IF n <= 0 \/ IsSome(st.result) THEN st
          ELSE IF n = 1 THEN EscapeStep(st, c, threshold)
          ELSE EscapeRun(EscapeRun(st, c, n \div 2, threshold), c,
                         n - n \div 2, threshold) :
          st \in {state}})

\* "for i in 0..limit" from z = 0, escaping above threshold.
EscapeLoop(c, limit, threshold) ==
    Only({EscapeRun(LoopStart, point, limit, threshold).result : point \in {c}})

\* The mutant of mandelbrot: a point that never escapes reports the limit.
mandelbrot_reports_limit(c, limit) ==
    Only({IF IsSome(r) THEN r ELSE Some(limit) :
            r \in {EscapeLoop(c, limit, EscapeThreshold)}})

mandelbrot(c, limit) == EscapeLoop(c, limit, EscapeThreshold)

\* The mutant of color_from_value: the first band ends below 30.
color_from_value_first_band_open(value) ==
    IF value < 30 THEN Color(50, 60, 50)
    ELSE IF value >= 30 /\ value <= 90
    THEN Color(U8Sub(255, AsU8(value)), U8Sub(255, AsU8(value)), 20)
    ELSE IF value > 90 /\ value <= 200
    THEN Color(40, U8Sub(255, AsU8(value)), U8Sub(255, AsU8(value)))
    ELSE Color(10, 20, U8Sub(255, AsU8(value)))

color_from_value(value) ==
    IF value <= 30 THEN Color(50, 60, 50)
    ELSE IF value > 30 /\ value <= 90
    THEN Color(U8Sub(255, AsU8(value)), U8Sub(255, AsU8(value)), 20)
    ELSE IF value > 90 /\ value <= 200
    THEN Color(40, U8Sub(255, AsU8(value)), U8Sub(255, AsU8(value)))
    ELSE Color(10, 20, U8Sub(255, AsU8(value)))

\* The match of render on mandelbrot's result.
PixelColor(result) ==
    IF IsSome(result) THEN color_from_value(Unwrap(result)) ELSE Color(0, 0, 0)

\* The iteration limit render passes to mandelbrot.
Limit == 255

\* The mutant of RenderIndex: the buffer is filled column by column.
RenderIndexColumnMajor(bnds, x, y) == x * bnds[2] + y

\* The index render stores pixel (x, y) at: y * bounds.0 + x.
RenderIndex(bnds, x, y) == y * bnds[1] + x

\* colors_to_u8s: the buffer as r, g, b bytes, row-major.
colors_to_u8s(pxs) ==
    [k \in 1..(3 * Len(pxs)) |->
        LET p == pxs[((k - 1) \div 3) + 1]
        IN  CASE (k - 1) % 3 = 0 -> p.r
              [] (k - 1) % 3 = 1 -> p.g
              [] (k - 1) % 3 = 2 -> p.b]

----------------------------------------------------------------------------
(* Bounds of the model and the inputs Init draws *)

\* Image widths and heights run over 0..MaxDim.
MaxDim == 2

\* Strings of the parser's harness have at most MaxLen characters.
MaxLen == 5

\* The escape-time harness tries every limit in 1..MaxLimit, and Limit.
MaxLimit == 3

\* The colour harness tries every value in 0..MaxValue.
MaxValue == 256

\* The mapping harness places the corners on the integers -MaxCoord..MaxCoord.
MaxCoord == 1

\* The escape-time harness tries the points (a/2, b/2) with a and b in
\* -GridHalves..GridHalves.
GridHalves == 4

DigitChar(n) == CHOOSE ch \in Digits : DigitVal(ch) = n

ValidSizeArgs ==
    {<<DigitChar(w), "x", DigitChar(h)>> : w \in 0..MaxDim, h \in 0..MaxDim}

\* The last one is 18446744073709551616x1: the width is usize::MAX + 1.
InvalidSizeArgs ==
    {<<>>, <<"2">>, <<"x">>, <<"2", "x">>, <<"x", "2">>,
     <<"-", "1", "x", "2">>, <<"2", ",", "2">>, <<"1", "e", "1", "x", "1">>,
     <<"1", "8", "4", "4", "6", "7", "4", "4", "0", "7", "3", "7", "0", "9",
       "5", "5", "1", "6", "1", "6", "x", "1">>}

ValidCornerArgs ==
    {<<"-", "2", ",", "1", ".", "5">>,    \* -2,1.5
     <<"2", ",", "0">>,                   \* 2,0
     <<"0", ",", "0">>}                   \* 0,0

\* Corners that parse to other f64s than the decimal fractions above.
SpecialCornerArgs ==
    {<<"1", "e", "2", ",", "1">>,         \* 1e2,1
     <<"i", "n", "f", ",", "0">>,         \* inf,0
     <<"-", ".", "5", ",", "N", "a", "N">>}  \* -.5,NaN

InvalidCornerArgs ==
    {<<"1", ".", "2", ",">>,              \* 1.2,
     <<"0">>,                             \* 0
     <<"1", "x", "1">>,                   \* 1x1
     <<"1", "e", ",", "1">>}              \* 1e,1

ProgramName == <<"m">>

FileName == <<"o">>

\* An argument vector of five well-formed arguments.
GoodArgs ==
    <<ProgramName, FileName, <<"2", "x", "1">>, <<"0", ",", "0">>,
      <<"2", ",", "0">>>>

\* The argument vectors with the right number of arguments: every size with
\* every pair of decimal corners, a 1 x 1 image for the other corners, and
\* vectors with one argument, or all three, ill-formed.
FullArgs ==
    {<<ProgramName, FileName, size, ul, lr>> :
        size \in ValidSizeArgs, ul \in ValidCornerArgs, lr \in ValidCornerArgs}
    \cup {<<ProgramName, FileName, <<"1", "x", "1">>, ul, <<"2", ",", "0">>>> :
            ul \in SpecialCornerArgs}
    \cup {<<ProgramName, FileName, <<"1", "x", "1">>, <<"0", ",", "0">>, lr>> :
            lr \in SpecialCornerArgs}
    \cup {[GoodArgs EXCEPT ![3] = size] : size \in InvalidSizeArgs}
    \cup {[GoodArgs EXCEPT ![4] = ul] : ul \in InvalidCornerArgs}
    \cup {[GoodArgs EXCEPT ![5] = lr] : lr \in InvalidCornerArgs}
    \cup {<<ProgramName, FileName, size, <<"0">>, <<"0">>>> :
            size \in InvalidSizeArgs}

\* Argument vectors with too few or too many arguments (none at all: the
\* program was started with an empty argv); the arguments themselves are
\* well-formed.
ShortArgs ==
    {SubSeq(GoodArgs, 1, n) : n \in 0..4}
        \cup {GoodArgs \o <<extra>> : extra \in {FileName, <<"0", ",", "0">>}}

ArgVectors == FullArgs \cup ShortArgs

NoFile == [state |-> "absent", width |-> 0, height |-> 0, bytes |-> <<>>]

IdleCall == [fn |-> "none"]

Black == Color(0, 0, 0)

----------------------------------------------------------------------------
(* main *)

Init ==
    /\ pc = "start"
    /\ args \in ArgVectors
    /\ bounds = None
    /\ upper_left = None
    /\ lower_right = None
    /\ pixels = <<>>
    /\ writes = <<>>
    /\ xy = <<0, 0>>
    /\ lastValue = None
    /\ file = NoFile
    /\ createCalls = 0
    /\ ioFailed = FALSE
    /\ exitCode = 0
    /\ call = IdleCall
    /\ ret = None

\* The mutant of WrongArgCount: extra arguments are accepted.
TooFewArgs(n) == n < 5

\* args.len() != 5
WrongArgCount(n) == n # 5

\* The process ends with the given status; nothing else changes.
Exit(code) ==
    /\ pc' = "exited"
    /\ exitCode' = code

\* A panic (unwrap, expect, a failed assert or index check): status 101.
Panic == Exit(101)

\* main, lines 127-133: the usage check.  The usage text names args[0],
\* which panics when there is none, and each writeln! to stderr is
\* unwrapped: the process exits with status 1 once both lines are written
\* and panics when stderr cannot be written.
CheckArgs ==
    /\ pc = "start"
    /\ \/ /\ WrongArgCount(Len(args))
          /\ \/ /\ Len(args) > 0
                /\ Exit(1)
             \/ Panic
       \/ /\ ~WrongArgCount(Len(args))
          /\ pc' = "parse_bounds"
          /\ exitCode' = exitCode
    /\ UNCHANGED <<args, bounds, upper_left, lower_right, pixels, writes, xy,
                   lastValue, file, createCalls, ioFailed, call, ret>>

\* main, line 135: expect panics unless the pair was parsed.
ParseBounds ==
    /\ pc = "parse_bounds"
    /\ bounds' = parse_pair("usize", args[3], "x")
    /\ \/ /\ IsSome(bounds')
          /\ pc' = "parse_upper_left"
          /\ exitCode' = exitCode
       \/ /\ ~IsSome(bounds')
          /\ Panic
    /\ UNCHANGED <<args, upper_left, lower_right, pixels, writes, xy,
                   lastValue, file, createCalls, ioFailed, call, ret>>

\* main, line 136.
ParseUpperLeft ==
    /\ pc = "parse_upper_left"
    /\ upper_left' = parse_complex(args[4])
    /\ \/ /\ IsSome(upper_left')
          /\ pc' = "parse_lower_right"
          /\ exitCode' = exitCode
       \/ /\ ~IsSome(upper_left')
          /\ Panic
    /\ UNCHANGED <<args, bounds, lower_right, pixels, writes, xy,
                   lastValue, file, createCalls, ioFailed, call, ret>>

\* main, line 137.
ParseLowerRight ==
    /\ pc = "parse_lower_right"
    /\ lower_right' = parse_complex(args[5])
    /\ \/ /\ IsSome(lower_right')
          /\ pc' = "alloc"
          /\ exitCode' = exitCode
       \/ /\ ~IsSome(lower_right')
          /\ Panic
    /\ UNCHANGED <<args, bounds, upper_left, pixels, writes, xy,
                   lastValue, file, createCalls, ioFailed, call, ret>>

\* main, lines 139-141: the buffer is allocated black, with exactly
\* bounds.0 * bounds.1 pixels, so that render's assert (line 103) holds,
\* and render is entered.
AllocPixels ==
    /\ pc = "alloc"
    /\ LET n == Unwrap(bounds)[1] * Unwrap(bounds)[2]
       IN  /\ pixels' = [i \in 1..n |-> Black]
           /\ writes' = [i \in 1..n |-> 0]
    /\ pc' = "render"
    /\ xy' = <<0, 0>>
    /\ UNCHANGED <<args, bounds, upper_left, lower_right, lastValue, file,
                   createCalls, ioFailed, exitCode, call, ret>>

\* The mutant of RowsDone: the outer loop stops one row early.
RowsDoneEarly(y, height) == y + 1 >= height

\* for y in 0..bounds.1 is over.
RowsDone(y, height) == y >= height

\* for x in 0..bounds.0 is over.
ColumnsDone(x, width) == x >= width

\* render, lines 107-112: one iteration of the inner loop.  The store is
\* bounds-checked: an index outside the buffer panics.
RenderPixel ==
    /\ pc = "render"
    /\ ~RowsDone(xy[2], Unwrap(bounds)[2])
    /\ ~ColumnsDone(xy[1], Unwrap(bounds)[1])
    /\ \E point \in {pixel_to_point(Unwrap(bounds), xy, Unwrap(upper_left),
                                     Unwrap(lower_right))} :
       \E result \in {mandelbrot(point, Limit)} :
       \E index \in {RenderIndex(Unwrap(bounds), xy[1], xy[2])} :
           /\ lastValue' = IF IsSome(result) THEN result ELSE lastValue
           /\ \/ /\ index < Len(pixels)
                 /\ pixels' = [pixels EXCEPT ![index + 1] = PixelColor(result)]
                 /\ writes' = [writes EXCEPT ![index + 1] = @ + 1]
                 /\ xy' = <<xy[1] + 1, xy[2]>>
                 /\ UNCHANGED <<pc, exitCode>>
              \/ /\ index >= Len(pixels)
                 /\ Panic
                 /\ UNCHANGED <<pixels, writes, xy>>
    /\ UNCHANGED <<args, bounds, upper_left, lower_right, file, createCalls,
                   ioFailed, call, ret>>

\* render, lines 105-106: the inner loop is over, the next row begins.
RenderNextRow ==
    /\ pc = "render"
    /\ ~RowsDone(xy[2], Unwrap(bounds)[2])
    /\ ColumnsDone(xy[1], Unwrap(bounds)[1])
    /\ xy' = <<0, xy[2] + 1>>
    /\ UNCHANGED <<pc, args, bounds, upper_left, lower_right, pixels, writes,
                   lastValue, file, createCalls, ioFailed, exitCode, call, ret>>

\* render returns and main calls write_png (line 142).
RenderReturn ==
    /\ pc = "render"
    /\ RowsDone(xy[2], Unwrap(bounds)[2])
    /\ pc' = "create"
    /\ UNCHANGED <<args, bounds, upper_left, lower_right, pixels, writes, xy,
                   lastValue, file, createCalls, ioFailed, exitCode, call, ret>>

\* write_png, line 118: File::create(filename).unwrap().  The file system
\* decides whether the file can be created; a failure panics.
CreateFile ==
    /\ pc = "create"
    /\ createCalls' = createCalls + 1
    /\ \/ /\ file' = [state |-> "empty", width |-> 0, height |-> 0,
                      bytes |-> <<>>]
          /\ pc' = "encode"
          /\ UNCHANGED <<ioFailed, exitCode>>
       \/ /\ ioFailed' = TRUE
          /\ Panic
          /\ UNCHANGED file
    /\ UNCHANGED <<args, bounds, upper_left, lower_right, pixels, writes, xy,
                   lastValue, call, ret>>

\* write_png, lines 119-123, and main's return: the encoder writes the image
\* or fails (the file then keeps what was written before the failure, here
\* nothing); write_image's Result is dropped, write_png and main return.
EncodeImage ==
    /\ pc = "encode"
    /\ \/ /\ file' = [state |-> "image", width |-> Unwrap(bounds)[1],
                      height |-> Unwrap(bounds)[2],
                      bytes |-> colors_to_u8s(pixels)]
          /\ UNCHANGED ioFailed
       \/ /\ ioFailed' = TRUE
          /\ UNCHANGED file
    /\ Exit(0)
    /\ UNCHANGED <<args, bounds, upper_left, lower_right, pixels, writes, xy,
                   lastValue, createCalls, call, ret>>

Next ==
    \/ CheckArgs
    \/ ParseBounds
    \/ ParseUpperLeft
    \/ ParseLowerRight
    \/ AllocPixels
    \/ RenderPixel
    \/ RenderNextRow
    \/ RenderReturn
    \/ CreateFile
    \/ EncodeImage

Spec == Init /\ [][Next]_vars

----------------------------------------------------------------------------
(* The pure functions on their own: each specification draws an input,     *)
(* applies one function to it and keeps the result in ret.                 *)

\* The state of main while a function is applied on its own.
ProgramIdle ==
    /\ pc = "idle"
    /\ args = <<>>
    /\ bounds = None
    /\ upper_left = None
    /\ lower_right = None
    /\ pixels = <<>>
    /\ writes = <<>>
    /\ xy = <<0, 0>>
    /\ lastValue = None
    /\ file = NoFile
    /\ createCalls = 0
    /\ ioFailed = FALSE
    /\ exitCode = 0

ParseAlphabet == {"1", "+", "-", ".", ",", "e", TwoByteChar}

ParseStrings == UNION {[1..n -> ParseAlphabet] : n \in 0..MaxLen}

ParseCall(T, s, separator) ==
    [fn |-> "parse_pair", T |-> T, s |-> s, separator |-> separator]

\* The calls of test_parse_pair (lines 26-32) and, for parse_complex, the
\* strings of test_parse_complex (lines 44-45).
ParseTests ==
    {ParseCall("f32", <<>>, ","),
     ParseCall("f32", <<"1", ".", "2">>, ","),
     ParseCall("f32", <<",">>, ","),
     ParseCall("f32", <<",", "3", ".", "7">>, ","),
     ParseCall("i32", <<"4", "0", "0", "x", "8", "0", "0">>, "x"),
     ParseCall("f64", <<"1", ".", "2", "4", ",", "-", "0", ".", "6", "0", "4",
                        "8">>, ","),
     ParseCall("f32", <<"3", ".", "1", "4", ",", "2", "5", ".", "1">>, ","),
     ParseCall("f64", <<"3", ".", "1", "4", ",", "2", ".", "7", "1">>, ","),
     ParseCall("f64", <<"1", ".", "2", ",">>, ",")}

\* Sizes at the upper end of usize: usize::MAX x 1 and, one more,
\* 18446744073709551616 x 1.
WideCalls ==
    {ParseCall("usize", UsizeMaxDigits \o <<"x", "1">>, "x"),
     ParseCall("usize", [UsizeMaxDigits EXCEPT ![20] = "6"] \o <<"x", "1">>,
               "x")}

InitParse ==
    /\ ProgramIdle
    /\ \/ call \in [fn : {"parse_pair"}, T : {"usize", "f64"},
                     s : ParseStrings, separator : {",", TwoByteChar}]
       \/ call \in ParseTests
       \/ call \in WideCalls
    /\ ret = None

\* parse_pair::<T>(s, separator) and parse_complex(s).
ApplyParse ==
    /\ call.fn = "parse_pair"
    /\ ret = None
    /\ ret' = Some([pair    |-> parse_pair(call.T, call.s, call.separator),
                    complex |-> parse_complex(call.s)])
    /\ UNCHANGED <<progVars, call>>

SpecParse == InitParse /\ [][ApplyParse]_vars

\* The case of test_pixel_to_point (line 59).
TestPoint ==
    [fn |-> "pixel_to_point", bounds |-> <<100, 100>>, pixel |-> <<25, 75>>,
     upper_left |-> Complex(F64Of(-1, 0), F64Of(1, 0)),
     lower_right |-> Complex(F64Of(1, 0), F64Of(-1, 0))]

Coords == {F64Of(k, 0) : k \in (0 - MaxCoord)..MaxCoord}

\* f64::MAX, (2^53 - 1) * 2^971.
F64Max == Fin(0, <<Base - 1, Base - 1, Base - 1, Pow2(11) - 1>>, 971)

\* Rectangles with a corner that is not finite, or whose width is not: the
\* corners main parses from "-inf,1" and "nan,0", and from
\* "-1.7976931348623157e308,0" and "1.7976931348623157e308,-1".
SpecialRectangles ==
    {<<Complex(Inf(1), F64Of(1, 0)), Complex(F64Of(1, 0), F64Of(-1, 0))>>,
     <<Complex(NaN, FZero(0)), Complex(F64Of(1, 0), F64Of(-1, 0))>>,
     <<Complex(F64Neg(F64Max), FZero(0)), Complex(F64Max, F64Of(-1, 0))>>}

Rectangles ==
    {<<Complex(ulre, ulim), Complex(lrre, lrim)>> :
        ulre \in Coords, ulim \in Coords, lrre \in Coords, lrim \in Coords}
    \cup SpecialRectangles

InitPoint ==
    /\ ProgramIdle
    /\ \/ \E w \in 1..MaxDim, h \in 1..MaxDim :
            \E x \in 0..(w - 1), y \in 0..(h - 1) :
              \E rect \in Rectangles :
                call = [fn |-> "pixel_to_point", bounds |-> <<w, h>>,
                        pixel |-> <<x, y>>,
                        upper_left |-> rect[1],
                        lower_right |-> rect[2]]
       \/ call = TestPoint
    /\ ret = None

ApplyPoint ==
    /\ call.fn = "pixel_to_point"
    /\ ret = None
    /\ ret' = Some(pixel_to_point(call.bounds, call.pixel, call.upper_left,
                                  call.lower_right))
    /\ UNCHANGED <<progVars, call>>

SpecPoint == InitPoint /\ [][ApplyPoint]_vars

GridPoints ==
    {Complex(F64Of(a, -1), F64Of(b, -1)) :
        a \in (0 - GridHalves)..GridHalves, b \in (0 - GridHalves)..GridHalves}

\* Points off the grid, as parse_complex reads them: -0.9+0.25i,
\* -0.55+0.55i, 1.4142+0.0071i and -0.7271+0.2947i.
DecimalPoints ==
    {Unwrap(parse_complex(s)) :
        s \in {<<"-", "0", ".", "9", ",", "0", ".", "2", "5">>,
               <<"-", "0", ".", "5", "5", ",", "0", ".", "5", "5">>,
               <<"1", ".", "4", "1", "4", "2", ",", "0", ".", "0", "0", "7",
                 "1">>,
               <<"-", "0", ".", "7", "2", "7", "1", ",", "0", ".", "2", "9",
                 "4", "7">>}}

InitMandel ==
    /\ ProgramIdle
    /\ call \in [fn : {"mandelbrot"}, c : GridPoints \cup DecimalPoints,
                 limit : (1..MaxLimit) \cup {Limit}]
    /\ ret = None

ApplyMandel ==
    /\ call.fn = "mandelbrot"
    /\ ret = None
    /\ ret' = Some(mandelbrot(call.c, call.limit))
    /\ UNCHANGED <<progVars, call>>

SpecMandel == InitMandel /\ [][ApplyMandel]_vars

InitColor ==
    /\ ProgramIdle
    /\ call \in [fn : {"color"},
                 result : {None} \cup {Some(v) : v \in 0..MaxValue}]
    /\ ret = None

\* The match of render (lines 109-112) on an Iteration Result.
ApplyColor ==
    /\ call.fn = "color"
    /\ ret = None
    /\ ret' = Some(PixelColor(call.result))
    /\ UNCHANGED <<progVars, call>>

SpecColor == InitColor /\ [][ApplyColor]_vars

----------------------------------------------------------------------------
(* The claims *)

Width == Unwrap(bounds)[1]

Height == Unwrap(bounds)[2]

\* C1: when render returns, every pixel (x, y) of the image holds, at linear
\* index y * w + x, the colour of the escape-time result (limit 255) of the
\* point the pixel maps to; every index of the buffer has been written
\* exactly once, and the buffer has exactly w * h pixels (no write fell
\* outside it: such a write panics and render does not return).
RenderPostcondition ==
    pc = "create" =>
        /\ Len(pixels) = Width * Height
        /\ \A y \in 0..(Height - 1), x \in 0..(Width - 1) :
              pixels[y * Width + x + 1] =
                  PixelColor(mandelbrot(pixel_to_point(<<Width, Height>>,
                      <<x, y>>, Unwrap(upper_left), Unwrap(lower_right)), 255))
        /\ DOMAIN writes = 1..(Width * Height)
        /\ \A i \in 1..(Width * Height) : writes[i] = 1

\* render has returned from a 2 x 2 image whose first row holds a pixel that
\* escapes at once next to one that never escapes (black), and whose last
\* pixel escaped at count 32.
RenderedWitness ==
    /\ pc = "create"
    /\ Width = 2
    /\ Height = 2
    /\ pixels[1] = Color(50, 60, 50)
    /\ pixels[2] = Black
    /\ pixels[4] = Color(223, 223, 20)
    /\ \A i \in 1..4 : writes[i] = 1

\* C2: mandelbrot(c, limit) returns the first i < limit at which the squared
\* magnitude of z exceeds 4.0, and "did not escape" when there is none.
ClaimedThreshold == F64Of(4, 0)

MandelbrotEscapesAboveFour ==
    (call.fn = "mandelbrot" /\ IsSome(ret)) =>
        Unwrap(ret) = EscapeLoop(call.c, call.limit, ClaimedThreshold)

\* The five rules of the Color Mapper for an Iteration Result: whether the
\* rule applies, and the pixel it gives.
BandRules(result) ==
    LET v == IF IsSome(result) THEN Unwrap(result) ELSE 0
    IN  <<[applies |-> ~IsSome(result), pixel |-> Color(0, 0, 0)],
          [applies |-> IsSome(result) /\ v <= 30, pixel |-> Color(50, 60, 50)],
          [applies |-> IsSome(result) /\ 30 < v /\ v <= 90,
           pixel |-> Color(255 - v, 255 - v, 20)],
          [applies |-> IsSome(result) /\ 90 < v /\ v <= 200,
           pixel |-> Color(40, 255 - v, 255 - v)],
          [applies |-> IsSome(result) /\ v > 200,
           pixel |-> Color(10, 20, 255 - v)]>>

\* C3: for "did not escape" and for every escape count in 0..255 exactly one
\* of the five banding rules applies, and the pixel is the one it gives.
ColorBanding ==
    (/\ call.fn = "color"
     /\ IsSome(ret)
     /\ (IsSome(call.result) => Unwrap(call.result) \in 0..255)) =>
        LET rules == BandRules(call.result)
        IN  /\ Cardinality({k \in 1..5 : rules[k].applies}) = 1
            /\ \A k \in 1..5 : rules[k].applies => Unwrap(ret) = rules[k].pixel

\* The mapper has been applied to the last value of the second band, to a
\* value of the fourth band or to "did not escape".
ColorBandingWitness ==
    /\ call.fn = "color"
    /\ IsSome(ret)
    /\ \/ call.result = Some(90) /\ Unwrap(ret) = Color(165, 165, 20)
       \/ call.result = Some(255) /\ Unwrap(ret) = Color(10, 20, 0)
       \/ call.result = None /\ Unwrap(ret) = Color(0, 0, 0)

\* a in units of 2^-20, rounded toward zero, for a finite f64 a, |a| < 2^10.
Fixed(a) ==
    LET sh    == a.e + 20
        limbs == IF sh >= 0 THEN BigShl(a.m, sh, 3) ELSE BigShr(a.m, 0 - sh, 3)
        mag   == limbs[1] + limbs[2] * Base + limbs[3] * Base * Base
    IN  IF a.s = 1 THEN 0 - mag ELSE mag

\* The corners of the call's rectangle are finite, and so are its spans.
FiniteRectangle ==
    /\ IsFinite(call.upper_left.re) /\ IsFinite(call.upper_left.im)
    /\ IsFinite(call.lower_right.re) /\ IsFinite(call.lower_right.im)
    /\ IsFinite(F64Sub(call.lower_right.re, call.upper_left.re))
    /\ IsFinite(F64Sub(call.upper_left.im, call.lower_right.im))

\* What C4 says of the call's result p: pixel (0, 0) maps exactly to
\* upper_left; bounds (100, 100), pixel (25, 75), rectangle
\* (-1, 1)..(1, -1) map to (-0.5, -0.5); and re = ul.re + x * (lr.re - ul.re) / w,
\* im = ul.im - y * (ul.im - lr.im) / h.  The formula is compared in exact
\* integer arithmetic, w * re and h * im in units of 2^-20, which the finite
\* rectangles drawn here allow (their coordinates are below 2^10): the f64
\* result is within one unit of the exact quotient.
MapsAsClaimed ==
    LET w  == call.bounds[1]
        h  == call.bounds[2]
        x  == call.pixel[1]
        y  == call.pixel[2]
        ul == call.upper_left
        lr == call.lower_right
        p  == Unwrap(ret)
    IN  /\ (x = 0 /\ y = 0) => (F64Eq(p.re, ul.re) /\ F64Eq(p.im, ul.im))
        /\ call = TestPoint => p = Complex(F64Of(-1, -1), F64Of(-1, -1))
        /\ FiniteRectangle =>
              LET dre == w * (Fixed(p.re) - Fixed(ul.re))
                            - x * (Fixed(lr.re) - Fixed(ul.re))
                  dim == h * (Fixed(ul.im) - Fixed(p.im))
                            - y * (Fixed(ul.im) - Fixed(lr.im))
              IN  /\ IsFinite(p.re) /\ IsFinite(p.im)
                  /\ 0 - w <= dre /\ dre <= w
                  /\ 0 - h <= dim /\ dim <= h

\* C4 as stated: for w, h >= 1, a pixel (x, y) inside the image and every
\* plane rectangle, pixel_to_point returns
\* re = ul.re + x * (lr.re - ul.re) / w and
\* im = ul.im - y * (ul.im - lr.im) / h; pixel (0, 0) maps exactly to
\* upper_left; and bounds (100, 100), pixel (25, 75), rectangle
\* (-1, 1)..(1, -1) map to (-0.5, -0.5).
PixelToPointAnyRectangle ==
    (call.fn = "pixel_to_point" /\ IsSome(ret)) => MapsAsClaimed

\* C4, amended: the same for every plane rectangle whose corners are finite
\* and whose spans lr.re - ul.re and ul.im - lr.im are finite.
PixelToPointFormula ==
    (call.fn = "pixel_to_point" /\ IsSome(ret) /\ FiniteRectangle) =>
        MapsAsClaimed

\* The mapper has been applied to the repository's test case, or to a pixel
\* off the first row and column of a finite rectangle that is not a point.
PixelToPointWitness ==
    /\ call.fn = "pixel_to_point"
    /\ IsSome(ret)
    /\ FiniteRectangle
    /\ \/ call = TestPoint
       \/ /\ call.pixel = <<1, 1>>
          /\ ~F64Eq(Unwrap(ret).re, call.upper_left.re)
          /\ ~F64Eq(Unwrap(ret).im, call.upper_left.im)

\* Every pixel of the buffer has been written once.
AllWritten ==
    /\ IsSome(bounds)
    /\ DOMAIN writes = 1..(Width * Height)
    /\ \A i \in DOMAIN writes : writes[i] = 1

\* C5: File::create is called at most once, the destination file is touched
\* only by it, and from the moment it is called on every pixel of the buffer
\* has been written exactly once: it is called only after render has written
\* every pixel, and no pixel is written after it.
PipelineOrdering ==
    /\ createCalls <= 1
    /\ (createCalls = 0 => file = NoFile)
    /\ (createCalls >= 1 \/ pc \in {"create", "encode"}) =>
          /\ AllWritten
          /\ pc \in {"create", "encode", "exited"}

\* The image of a buffer of at least two pixels has been encoded.
PipelineWitness ==
    /\ createCalls = 1
    /\ file.state = "image"
    /\ Len(pixels) >= 2
    /\ Len(file.bytes) = 3 * Len(pixels)

\* The invocation is invalid: a wrong number of arguments, or a size or a
\* corner that does not parse.
InvalidInvocation ==
    \/ Len(args) # 5
    \/ parse_pair("usize", args[3], "x") = None
    \/ parse_complex(args[4]) = None
    \/ parse_complex(args[5]) = None

\* C6: an invalid invocation never reaches the allocation of the buffer,
\* render or the creation of the destination file; the run goes on until it
\* has ended, and its status is then not zero.
InvalidInvocationStopsEarly ==
    (pc # "idle" /\ InvalidInvocation) =>
        /\ pc \in {"start", "parse_bounds", "parse_upper_left",
                   "parse_lower_right", "exited"}
        /\ pixels = <<>>
        /\ \A i \in DOMAIN writes : writes[i] = 0
        /\ createCalls = 0
        /\ file = NoFile
        /\ (pc = "exited" => exitCode # 0)
        /\ (pc # "exited" => ENABLED Next)

\* A run has ended on a lower-right corner that does not parse, after the
\* size and the upper-left corner did; or on a wrong number of arguments.
InvalidInvocationWitness ==
    /\ pc = "exited"
    /\ \/ /\ exitCode = 101
          /\ IsSome(bounds)
          /\ IsSome(upper_left)
          /\ ~IsSome(lower_right)
       \/ /\ exitCode = 1
          /\ Len(args) = 6

\* C7: no run in which File::create or write_image failed ends with the
\* success status.
IoFailureIsFatal == (pc = "exited" /\ ioFailed) => exitCode # 0

\* C8: at the end of every run the destination file holds the encoded image
\* of the rendered buffer, or there is no file.
NoPartialOutput ==
    pc = "exited" =>
        \/ file.state = "absent"
        \/ /\ file.state = "image"
           /\ file.bytes = colors_to_u8s(pixels)

\* The offsets of the first occurrence of the separator (none or one).
FirstOccurrences(s, separator) ==
    {i \in 1..Len(s) : s[i] = separator /\ \A j \in 1..(i - 1) : s[j] # separator}

\* Some((l, r)) when the separator occurs and the text before its first
\* occurrence and the whole text after it parse as T, None otherwise.
ExpectedPair(T, s, separator) ==
    LET good == {i \in FirstOccurrences(s, separator) :
                    /\ IsSome(FromStr(T, SubSeq(s, 1, i - 1)))
                    /\ IsSome(FromStr(T, SubSeq(s, i + 1, Len(s))))}
    IN  IF good = {} THEN None
        ELSE LET i == CHOOSE i \in good : TRUE
             IN  Some(<<Unwrap(FromStr(T, SubSeq(s, 1, i - 1))),
                        Unwrap(FromStr(T, SubSeq(s, i + 1, Len(s))))>>)

\* C9: parse_pair(s, separator) is Some((l, r)) exactly when the separator
\* occurs in s and the text before its first occurrence and the whole text
\* after it both parse, l and r being their values; in every other case it
\* is None.  parse_complex is Some(Complex{re: l, im: r}) under the same
\* condition with the separator ',' and the type f64.
ParsePairIffBothSidesParse ==
    (call.fn = "parse_pair" /\ IsSome(ret)) =>
        LET expected == ExpectedPair(call.T, call.s, call.separator)
            complex  == ExpectedPair("f64", call.s, ",")
        IN  /\ Unwrap(ret).pair = expected
            /\ Unwrap(ret).complex =
                  IF IsSome(complex)
                  THEN Some(Complex(Unwrap(complex)[1], Unwrap(complex)[2]))
                  ELSE None

\* C10: every escape count N handed to color_from_value in a run of render is
\* below the limit 255; N as u8 is N, the 8-bit subtraction 255 - N does not
\* wrap, and each channel computed from N is 255 - N, within 1..255.
EscapeCountFitsU8 ==
    IsSome(lastValue) =>
        LET N == Unwrap(lastValue)
            c == color_from_value(N)
        IN  /\ N \in 0..254
            /\ AsU8(N) = N
            /\ U8Sub(255, AsU8(N)) = 255 - N
            /\ 255 - N \in 1..255
            /\ (30 < N /\ N <= 90) => (c.r = 255 - N /\ c.g = 255 - N)
            /\ (90 < N /\ N <= 200) => (c.g = 255 - N /\ c.b = 255 - N)
            /\ N > 200 => c.b = 255 - N

\* render has handed color_from_value an escape count of the second band.
EscapeCountWitness ==
    /\ IsSome(lastValue)
    /\ Unwrap(lastValue) > 30
    /\ \E i \in 1..Len(pixels) : pixels[i] = Color(255 - Unwrap(lastValue),
                                                   255 - Unwrap(lastValue), 20)

====
